---- MODULE Spec2Model ----
(***************************************************************************)
(* CosyVoiceMod: the FastAPI server (src/fastapi_server.py) and the Gradio *)
(* app (src/gradio_app.py) as state machines.                              *)
(*                                                                         *)
(* Strings are sequences of character tokens: "sp" is a whitespace         *)
(* character, "a" a Latin letter, "dot" a punctuation mark, "ga" a         *)
(* character outside Latin-1 (Hangul).  A base64 string is a sequence over *)
(* "A" (a character of the base64 alphabet), "=" (the pad character) and   *)
(* "!" (a character outside the alphabet).                                 *)
(***************************************************************************)
EXTENDS Integers, Sequences, FiniteSets, TLC

VARIABLES
    launch,     \* how the process was started: "script" or "import"
    proc,       \* position of the starting process
    globals,    \* module name -> its module-level cosyvoice / whisper_model
    served,     \* the module whose `app` uvicorn serves ("none" before)
    rng,        \* process-wide random generator state <<seed, draws>>
    running,    \* the request whose coroutine holds the event loop, or NoReq
    task,       \* request slot -> the handler's local state
    gapp,       \* the CosyVoiceGradioApp instance's fields
    gfiles,     \* temporary files of the Gradio process that exist
    gcall       \* the last finished Gradio call: what it created and returned

vars == <<launch, proc, globals, served, rng, running, task, gapp, gfiles, gcall>>

serverVars == <<launch, proc, globals, served, rng, running, task>>

gradioVars == <<gapp, gfiles, gcall>>

-----------------------------------------------------------------------------
(* Bounds of the model. *)

MaxB64Len == 5

MaxTextLen == 1

RngPeriod == 3

(* Program constants.  Speeds are counted in tenths (0.5 is 5, 2.0 is 20). *)

\* line 72
prompt_sr == 16000

\* line 89: seed, ge=1
MinSeed == 1

\* line 90: seed, le=100000000
MaxSeed == 100000000

\* line 100: speed, ge=0.5
MinSpeed == 5

\* line 101: speed, le=2.0
MaxSpeed == 20

-----------------------------------------------------------------------------
(* Strings. *)

SeqsUpTo(S, n) == UNION {[1..k -> S] : k \in 0..n}

TextChars == {"sp", "a", "dot"}

Texts == SeqsUpTo(TextChars, MaxTextLen)

B64Chars == {"A", "=", "!"}

B64Strings == SeqsUpTo(B64Chars, MaxB64Len)

RECURSIVE LStrip(_)
LStrip(s) ==
    IF s # <<>> /\ Head(s) = "sp" THEN LStrip(Tail(s)) ELSE s

RECURSIVE RStrip(_)
RStrip(s) ==
    IF s # <<>> /\ s[Len(s)] = "sp" THEN RStrip(SubSeq(s, 1, Len(s) - 1)) ELSE s

\* str.strip()
Strip(s) == RStrip(LStrip(s))

\* binascii.a2b_base64 in its default, non-strict mode, as base64.b64decode
\* calls it: characters outside the alphabet are skipped, a pad that completes
\* a quad ends the parse (what follows is ignored), an incomplete last quad
\* is an error.  The result is the number of bytes decoded, -1 for an error.
RECURSIVE A2B(_, _, _, _, _)
A2B(s, i, quad_pos, pads, n) ==
    IF i > Len(s)
    THEN IF quad_pos # 0 THEN -1 ELSE n
    ELSE IF s[i] = "="
         THEN IF quad_pos >= 2 /\ quad_pos + pads + 1 >= 4
              THEN n
              ELSE A2B(s, i + 1, quad_pos,
                       IF quad_pos >= 2 THEN pads + 1 ELSE pads, n)
         ELSE IF s[i] # "A"
              THEN A2B(s, i + 1, quad_pos, pads, n)
              ELSE A2B(s, i + 1, (quad_pos + 1) % 4, 0,
                       IF quad_pos = 0 THEN n ELSE n + 1)

b64decode(s) == A2B(s, 1, 0, 0, 0)

\* RFC 4648 base64: quads of alphabet characters, the last one padded with at
\* most two "=".
IsValidBase64(s) ==
    /\ Len(s) % 4 = 0
    /\ \A i \in 1..Len(s) : s[i] # "!"
    /\ \A i \in 1..Len(s) : s[i] = "=" =>
          /\ i >= Len(s) - 1
          /\ \A j \in i..Len(s) : s[j] = "="

-----------------------------------------------------------------------------
(* The process: module namespaces and model handles. *)

Modules == {"__main__", "fastapi_server"}

Reqs == {"r1", "r2"}

NoReq == "none"

\* lines 70-71: what executing the module body leaves in its namespace
FreshGlobals == [cosyvoice |-> "None", whisper_model |-> "None"]

\* cosyvoice.sample_rate of the loaded model class (0 stands for None)
SampleRateOf(handle) ==
    CASE handle = "CosyVoice" -> 22050
      [] handle = "CosyVoice2" -> 24000
      [] OTHER -> 0

\* init_models, run in module m (its `global` statement binds m's namespace).
\* cv1, cv2, wh: whether CosyVoice(model_dir), CosyVoice2(model_dir) and
\* whisper.load_model(name) succeed.  The result is m's namespace afterwards.
InitModelsGlobals(g, cv1, cv2, wh) ==
    LET c == IF cv1 THEN "CosyVoice"
             ELSE IF cv2 THEN "CosyVoice2" ELSE g.cosyvoice
    IN  IF ~cv1 /\ ~cv2
        THEN g
        ELSE [cosyvoice |-> c,
              whisper_model |-> IF wh THEN "Whisper" ELSE g.whisper_model]

\* whether init_models returns instead of raising TypeError
InitModelsOk(cv1, cv2, wh) == (cv1 \/ cv2) /\ wh

\* python fastapi_server.py, line 470: init_models runs in the module that is
\* executing as the script; an uncaught TypeError ends the process.
MainInitModels ==
    /\ launch = "script" /\ proc = "boot"
    /\ \E cv1 \in BOOLEAN, cv2 \in BOOLEAN, wh \in BOOLEAN :
          /\ globals' = [globals EXCEPT
                 !["__main__"] = InitModelsGlobals(@, cv1, cv2, wh)]
          /\ proc' = IF InitModelsOk(cv1, cv2, wh) THEN "inited" ELSE "exited"
    /\ UNCHANGED <<launch, served, rng, running, task, gradioVars>>

\* the module an import string "fastapi_server:app" resolves to
ImportedModule == "fastapi_server"

\* lines 498-504: uvicorn.run("fastapi_server:app") imports the module named
\* in the import string; the script itself is registered as __main__, so the
\* import executes the module body again in a namespace of its own, whose
\* __name__ is not "__main__" (init_models is not called there).
UvicornRun ==
    /\ launch = "script" /\ proc = "inited"
    /\ globals' = [globals EXCEPT ![ImportedModule] = FreshGlobals]
    /\ served' = ImportedModule
    /\ proc' = "serving"
    /\ UNCHANGED <<launch, rng, running, task, gradioVars>>

\* A host that imports the module and calls init_models(model_dir, name)
\* itself; a TypeError it raises may be caught by the host.
HostInitModels ==
    /\ launch = "import" /\ proc = "boot"
    /\ \E cv1 \in BOOLEAN, cv2 \in BOOLEAN, wh \in BOOLEAN :
          globals' = [globals EXCEPT
                 !["fastapi_server"] = InitModelsGlobals(@, cv1, cv2, wh)]
    /\ proc' = "inited"
    /\ UNCHANGED <<launch, served, rng, running, task, gradioVars>>

\* The host serves the imported module's app (uvicorn fastapi_server:app, or
\* uvicorn.run(fastapi_server.app)), with or without having called
\* init_models.
HostServe ==
    /\ launch = "import" /\ proc \in {"boot", "inited"}
    /\ served' = "fastapi_server"
    /\ proc' = "serving"
    /\ UNCHANGED <<launch, globals, rng, running, task, gradioVars>>

\* the globals the request handlers of the served app read
cosyvoice == globals[served].cosyvoice

whisper_model == globals[served].whisper_model

-----------------------------------------------------------------------------
(* Requests, exceptions and responses. *)

Endpoints == {"zero_shot", "zero_shot_file", "transcribe"}

\* What a prompt audio file holds: its sample rate (0: not parseable as
\* audio, torchaudio.info raises) and what is spoken in it.
Garbage == [sr |-> 0, speech |-> "none"]

Audios ==
    {Garbage, [sr |-> 8000, speech |-> "clear"]}
    \cup [sr : {16000}, speech : {"clear", "noisy", "silence", "hangul"}]

\* seeds and speeds (in tenths) around the limits of TTSRequest
Seeds == {MinSeed - 1, MinSeed, MaxSeed, MaxSeed + 1}

Speeds == {MinSpeed - 1, MinSpeed, 10, MaxSpeed, MaxSpeed + 1}

NoB64 == [valid |-> TRUE, empty |-> TRUE, decoded |-> "none"]

\* what the handler can observe of a base64 string s: whether it is empty,
\* and whether b64decode raises, returns no bytes or returns data
B64Of(s) ==
    [valid |-> IsValidBase64(s), empty |-> s = <<>>,
     decoded |-> IF b64decode(s) < 0 THEN "error"
                 ELSE IF b64decode(s) = 0 THEN "none" ELSE "data"]

B64Inputs == {B64Of(s) : s \in B64Strings}

NoRequest ==
    [endpoint |-> "none", text |-> <<>>, b64 |-> NoB64, audio |-> Garbage,
     seed |-> 0, stream |-> FALSE, speed |-> 0]

\* POST /tts/zero_shot bodies: the prompt audio travels as a base64 string;
\* a string that decodes to no bytes carries no audio.
JsonRequests(T, B, A, S, St, Sp) ==
    {[endpoint |-> "zero_shot", text |-> t, b64 |-> b,
      audio |-> IF b.decoded = "data" THEN a ELSE Garbage,
      seed |-> sd, stream |-> st, speed |-> sp] :
        t \in T, b \in B, a \in A, sd \in S, st \in St, sp \in Sp}

\* POST /tts/zero_shot_file forms: the prompt audio is an uploaded file.
FileRequests(T, A, S, St, Sp) ==
    {[endpoint |-> "zero_shot_file", text |-> t, b64 |-> NoB64, audio |-> a,
      seed |-> sd, stream |-> st, speed |-> sp] :
        t \in T, a \in A, sd \in S, st \in St, sp \in Sp}

\* GET /health
HealthRequest == [NoRequest EXCEPT !.endpoint = "health"]

\* POST /transcribe forms.
TranscribeRequests(A) ==
    {[NoRequest EXCEPT !.endpoint = "transcribe", !.audio = a] : a \in A}

HTTPException(st, d) == [kind |-> "HTTPException", status |-> st, detail |-> d]

OtherException(d) == [kind |-> "Exception", status |-> 0, detail |-> d]

Returned == [kind |-> "return", status |-> 200, detail |-> ""]

NoPending == [kind |-> "none", status |-> 0, detail |-> ""]

NoAudio == [format |-> "none", samples |-> <<>>, rate |-> 0]

\* lines 117-121: HealthResponse (sample_rate 0 stands for null)
NoHealth ==
    [status |-> "none", cosyvoice_loaded |-> FALSE, whisper_loaded |-> FALSE,
     sample_rate |-> 0]

NoResp ==
    [kind |-> "none", status |-> 0, success |-> FALSE, detail |-> "",
     transcribed_text |-> <<>>, audio |-> NoAudio, sample_rate |-> 0,
     header |-> <<>>, health |-> NoHealth]

IdleTask ==
    [pc |-> "idle", req |-> NoRequest, tmp |-> "none", pending |-> NoPending,
     prompt_text |-> <<>>, final_audio |-> <<>>, synth_rng |-> <<0, 0>>,
     body |-> NoResp, resp |-> NoResp, trace |-> <<>>, fault |-> "none"]

\* lines 86-103: the Field constraints of TTSRequest, checked by FastAPI
\* before zero_shot_tts is called; the Form parameters of the file endpoint
\* (lines 287-291) carry a type and no range.
ValidatesLowerBounds(rq) ==
    rq.endpoint = "zero_shot" =>
        rq.seed >= MinSeed /\ rq.speed >= MinSpeed

PassesValidation(rq) ==
    rq.endpoint = "zero_shot" =>
        /\ rq.seed >= MinSeed /\ rq.seed <= MaxSeed
        /\ rq.speed >= MinSpeed /\ rq.speed <= MaxSpeed

OuterExceptReraises(endpoint, e) == e

\* lines 279-283, 383-387, 427-431: what leaves the handler for the outcome e
\* of its outer try block
OuterExcept(endpoint, e) ==
    IF e.kind = "Exception"
    THEN HTTPException(500, IF endpoint = "transcribe"
                            THEN "Transcription failed"
                            ELSE "TTS generation failed")
    ELSE e

\* the handler of task t is left with outcome e
Leave(t, e) ==
    LET out == OuterExcept(t.req.endpoint, e)
    IN  [t EXCEPT !.pc = "done", !.pending = NoPending,
            !.resp = IF out.kind = "return"
                     THEN [t.body EXCEPT !.kind = "response", !.status = 200]
                     ELSE [NoResp EXCEPT !.kind = out.kind,
                                         !.status = out.status,
                                         !.detail = out.detail]]

\* an exception inside the inner try block: control goes to its finally
Raise(t, e) == [t EXCEPT !.pc = "finally", !.pending = e]

\* the handler calls the function `name`
Called(t, name) == [t EXCEPT !.trace = Append(@, name)]

\* the call `name` fails for a reason outside the program (the disk, the
\* upload, a model)
Failed(t, name) == [t EXCEPT !.fault = name]

\* Handlers are coroutines (async def) on the worker's one event loop: a
\* handler that has started keeps the loop until it awaits or is left.  The
\* only await in a handler is the upload's read() (lines 326, 408).
LoopAfterEveryStep(r, pc) == NoReq

LoopAfter(r, pc) == IF pc \in {"await_read", "done"} THEN NoReq ELSE r

\* The event loop runs request r's coroutine up to its next step, leaving
\* the handler's state t.
Run(r, t) ==
    /\ running \in {NoReq, r}
    /\ task' = [task EXCEPT ![r] = t]
    /\ running' = LoopAfter(r, t.pc)

\* A request arrives in slot r.
Receive(r, rq) ==
    /\ proc = "serving"
    /\ task[r].pc = "idle"
    /\ task' = [task EXCEPT ![r] =
          IF PassesValidation(rq)
          THEN [IdleTask EXCEPT !.pc = "entry", !.req = rq]
          ELSE [IdleTask EXCEPT !.pc = "done", !.req = rq,
                   !.resp = [NoResp EXCEPT !.kind = "RequestValidationError",
                                           !.status = 422]]]
    /\ UNCHANGED <<launch, proc, globals, served, rng, running, gradioVars>>

EntryCheckModelsOnly(rq) ==
    IF rq.endpoint # "transcribe" /\ cosyvoice = "None"
    THEN HTTPException(500, "CosyVoice model not loaded")
    ELSE IF whisper_model = "None"
    THEN HTTPException(500, "Whisper model not loaded")
    ELSE NoPending

EntryCheckInputsOnly(rq) ==
    IF rq.endpoint = "zero_shot" /\ rq.b64.empty
    THEN HTTPException(400, "Prompt audio is required for zero-shot TTS")
    ELSE IF rq.endpoint # "transcribe" /\ Strip(rq.text) = <<>>
    THEN HTTPException(400, "TTS text cannot be empty")
    ELSE NoPending

\* lines 201-211, 314-322, 403-404: the checks before any file is created
EntryCheck(rq) ==
    IF rq.endpoint # "transcribe" /\ cosyvoice = "None"
    THEN HTTPException(500, "CosyVoice model not loaded")
    ELSE IF whisper_model = "None"
    THEN HTTPException(500, "Whisper model not loaded")
    ELSE IF rq.endpoint = "zero_shot" /\ rq.b64.empty
    THEN HTTPException(400, "Prompt audio is required for zero-shot TTS")
    ELSE IF rq.endpoint # "transcribe" /\ Strip(rq.text) = <<>>
    THEN HTTPException(400, "TTS text cannot be empty")
    ELSE NoPending

\* The event loop starts the handler coroutine of request r.
Enter(r) ==
    /\ task[r].pc = "entry"
    /\ task[r].req.endpoint \in Endpoints
    /\ LET t == task[r]
           e == EntryCheck(t.req)
       IN  Run(r, IF e.kind = "HTTPException"
                  THEN Leave(t, e)
                  ELSE [t EXCEPT !.pc = "store"])
    /\ UNCHANGED <<launch, proc, globals, served, rng, gradioVars>>

\* lines 142-150: base64_to_audio.  The file is created only after the
\* decode; a failing write leaves it behind (delete=False) and is reported
\* like a failing decode.
Base64ToAudio(r) ==
    /\ task[r].pc = "store"
    /\ task[r].req.endpoint = "zero_shot"
    /\ LET t == Called(task[r], "b64decode")
           u == [Called(t, "mktemp") EXCEPT !.tmp = "exists"]
       IN  IF t.req.b64.decoded = "error"
           THEN Run(r, Leave(t, HTTPException(400, "Invalid audio data")))
           ELSE \E written \in BOOLEAN :
                  Run(r, IF written
                         THEN [u EXCEPT !.pc = "probe"]
                         ELSE Leave(Failed(u, "write"),
                                    HTTPException(400, "Invalid audio data")))
    /\ UNCHANGED <<launch, proc, globals, served, rng, gradioVars>>

\* lines 325-326, 407-408: the temporary file is created, then the coroutine
\* awaits the upload's read() and gives up the event loop.
CreateUpload(r) ==
    /\ task[r].pc = "store"
    /\ task[r].req.endpoint # "zero_shot"
    /\ Run(r, [Called(task[r], "mktemp") EXCEPT
                  !.tmp = "exists", !.pc = "await_read"])
    /\ UNCHANGED <<launch, proc, globals, served, rng, gradioVars>>

\* lines 326-328, 408-410: the read completes and the content is written; a
\* failure of either is raised before the inner try block is entered.
ResumeRead(r) ==
    /\ task[r].pc = "await_read"
    /\ \E stored \in BOOLEAN :
          Run(r, IF stored
                 THEN [task[r] EXCEPT !.pc =
                          IF task[r].req.endpoint = "transcribe"
                          THEN "transcribe" ELSE "probe"]
                 ELSE Leave(Failed(task[r], "upload"), OtherException("upload")))
    /\ UNCHANGED <<launch, proc, globals, served, rng, gradioVars>>

SampleRateBelow8k(sr) == sr < 8000

\* lines 219, 333
SampleRateTooLow(sr) == sr < prompt_sr

\* lines 216-223, 330-337: torchaudio.info and the sample-rate check
Probe(r) ==
    /\ task[r].pc = "probe"
    /\ LET t == Called(task[r], "info")
       IN  Run(r, IF t.req.audio.sr = 0
                  THEN Raise(t, OtherException("info"))
                  ELSE IF SampleRateTooLow(t.req.audio.sr)
                  THEN Raise(t, HTTPException(400,
                                 "Prompt audio sample rate is below required"))
                  ELSE [t EXCEPT !.pc = "transcribe"])
    /\ UNCHANGED <<launch, proc, globals, served, rng, gradioVars>>

-----------------------------------------------------------------------------
(* The external models, as deterministic functions of their inputs and of  *)
(* the random generator's state.                                           *)

\* set_all_random_seed(seed)
Seeded(seed) == <<seed, 0>>

\* the generator after k draws
Advance(g, k) == <<g[1], (g[2] + k) % RngPeriod>>

\* the next draw of generator g
Draw(g) == (g[1] + g[2]) % 2

\* whisper_model.transcribe(path)["text"]: decoding is greedy, and falls
\* back to sampling at a temperature (which draws from the process-wide
\* generator) for audio it decodes badly.
WhisperText(audio, g) ==
    CASE audio.speech = "clear" -> <<"sp", "a">>
      [] audio.speech = "hangul" -> <<"sp", "ga">>
      [] audio.speech = "noisy" ->
            IF Draw(g) = 0 THEN <<"sp", "a">> ELSE <<"sp", "a", "a">>
      [] OTHER -> <<"sp">>

WhisperRng(audio, g) == IF audio.speech = "noisy" THEN Advance(g, 1) ELSE g

\* the sentences the CosyVoice frontend keeps of a text: segments that hold
\* only punctuation are dropped
Sentences(text) == Cardinality({i \in 1..Len(text) : text[i] \in {"a", "ga"}})

\* how many chunks inference_zero_shot yields: one per sentence, and in
\* streaming mode two per sentence
NumChunks(text, stream) == IF stream THEN 2 * Sentences(text) ELSE Sentences(text)

\* the chunks cosyvoice.inference_zero_shot(text, prompt_text, prompt_speech,
\* stream, speed) yields when iterated to the end, each a one-sample array
SynthChunks(text, prompt, audio, stream, speed, g) ==
    [j \in 1..NumChunks(text, stream) |->
        <<[text |-> text, prompt |-> prompt, voice |-> audio.speech,
           speed |-> speed, seg |-> j, noise |-> Advance(g, j)]>>]

RECURSIVE Concatenate(_)
\* np.concatenate
Concatenate(arrays) ==
    IF arrays = <<>> THEN <<>> ELSE Head(arrays) \o Concatenate(Tail(arrays))

-----------------------------------------------------------------------------
(* The handlers' inner try blocks. *)

TranscriptNeverRejected(text) == FALSE

\* lines 228, 342: `if not prompt_text.strip()`
TranscriptRejected(text) == Strip(text) = <<>>

\* lines 225-229, 339-343, 412-420: transcribe_audio (lines 152-162) turns
\* every exception into HTTPException(500); an empty transcription is a 400
\* on the TTS endpoints.
Transcribe(r) ==
    /\ task[r].pc = "transcribe"
    /\ LET t == Called(task[r], "transcribe")
           text == Strip(WhisperText(t.req.audio, rng))
       IN  \E ok \in BOOLEAN :
             IF whisper_model = "None" \/ ~ok
             THEN /\ Run(r, Raise(IF ok THEN t ELSE Failed(t, "transcribe"),
                                     HTTPException(500, "Transcription failed")))
                  /\ UNCHANGED rng
             ELSE /\ rng' = WhisperRng(t.req.audio, rng)
                  /\ Run(r, IF t.req.endpoint = "transcribe"
                            THEN Raise([t EXCEPT !.body =
                                          [NoResp EXCEPT !.transcribed_text = text]],
                                       Returned)
                            ELSE IF TranscriptRejected(text)
                            THEN Raise(t, HTTPException(400,
                                           "Failed to transcribe prompt audio"))
                            ELSE [t EXCEPT !.pc = "load", !.prompt_text = text])
    /\ UNCHANGED <<launch, proc, globals, served, gradioVars>>

\* lines 232, 346: load_wav and postprocess
LoadPrompt(r) ==
    /\ task[r].pc = "load"
    /\ LET t == Called(task[r], "load_wav")
       IN  \E ok \in BOOLEAN :
             Run(r, IF ok THEN [t EXCEPT !.pc = "seed"]
                          ELSE Raise(Failed(t, "load_wav"), OtherException("load_wav")))
    /\ UNCHANGED <<launch, proc, globals, served, rng, gradioVars>>

\* lines 235, 349: set_all_random_seed
Seed(r) ==
    /\ task[r].pc = "seed"
    /\ rng' = Seeded(task[r].req.seed)
    /\ Run(r, [Called(task[r], "seed") EXCEPT !.pc = "synth"])
    /\ UNCHANGED <<launch, proc, globals, served, gradioVars>>

\* lines 239-261, 353-362: with stream the generator is iterated to its end
\* and the chunks are concatenated; without, next() takes its first chunk
\* and raises StopIteration when there is none.
FinalAudio(chunks, stream) ==
    IF stream THEN [raised |-> FALSE, samples |-> Concatenate(chunks)]
    ELSE IF chunks = <<>> THEN [raised |-> TRUE, samples |-> <<>>]
    ELSE [raised |-> FALSE, samples |-> chunks[1]]

\* how many chunks the handler takes from the generator
Taken(chunks, stream) ==
    IF stream \/ chunks = <<>> THEN Len(chunks) ELSE 1

Synthesize(r) ==
    /\ task[r].pc = "synth"
    /\ LET t == [Called(task[r], "synth") EXCEPT !.synth_rng = rng]
           q == t.req
           chunks == SynthChunks(q.text, t.prompt_text, q.audio, q.stream,
                                 q.speed, rng)
           audio == FinalAudio(chunks, q.stream)
       IN  \E ok \in BOOLEAN :
             IF ~ok
             THEN /\ Run(r, Raise(Failed(t, "inference"), OtherException("inference")))
                  /\ UNCHANGED rng
             ELSE /\ rng' = Advance(rng, Taken(chunks, q.stream))
                  /\ Run(r, IF audio.raised
                            THEN Raise(t, OtherException("StopIteration"))
                            ELSE [t EXCEPT !.pc = "encode",
                                           !.final_audio = audio.samples])
    /\ UNCHANGED <<launch, proc, globals, served, gradioVars>>

\* lines 135-140: a WAV file of the samples, base64-encoded
audio_to_base64(samples, rate) ==
    [format |-> "base64(wav)", samples |-> samples, rate |-> rate]

\* lines 365-367: sf.write into a buffer
WavBytes(samples, rate) == [format |-> "wav", samples |-> samples, rate |-> rate]

\* Starlette encodes header values as Latin-1 when the response is built
Latin1Encodable(s) == \A i \in 1..Len(s) : s[i] # "ga"

\* lines 263-272, 364-376: the response is built inside the inner try block
Encode(r) ==
    /\ task[r].pc = "encode"
    /\ LET t == Called(task[r], "encode")
           rate == SampleRateOf(cosyvoice)
       IN  \E ok \in BOOLEAN :
             Run(r, IF ~ok
                    THEN Raise(Failed(t, "sf.write"), OtherException("sf.write"))
                    ELSE IF t.req.endpoint = "zero_shot"
                    THEN Raise([t EXCEPT !.body = [NoResp EXCEPT
                                  !.success = TRUE,
                                  !.detail = "TTS generation completed successfully",
                                  !.transcribed_text = t.prompt_text,
                                  !.audio = audio_to_base64(t.final_audio, rate),
                                  !.sample_rate = rate]], Returned)
                    ELSE IF ~Latin1Encodable(t.prompt_text)
                    THEN Raise(t, OtherException("UnicodeEncodeError"))
                    ELSE Raise([t EXCEPT !.body = [NoResp EXCEPT
                                  !.audio = WavBytes(t.final_audio, rate),
                                  !.header = t.prompt_text]], Returned))
    /\ UNCHANGED <<launch, proc, globals, served, rng, gradioVars>>

\* lines 274-277, 378-381, 422-425: the finally clause unlinks the file; an
\* exception of os.unlink replaces the pending outcome.  Then the outer
\* except clauses decide what leaves the handler.
Finally(r) ==
    /\ task[r].pc = "finally"
    /\ LET t == Called(task[r], "unlink")
       IN  \E ok \in BOOLEAN :
             Run(r, IF ok THEN Leave([t EXCEPT !.tmp = "deleted"], t.pending)
                          ELSE Leave(Failed(t, "unlink"), OtherException("unlink")))
    /\ UNCHANGED <<launch, proc, globals, served, rng, gradioVars>>

HealthOfCosyvoiceOnly ==
    [status |-> "healthy",
     cosyvoice_loaded |-> cosyvoice # "None",
     whisper_loaded |-> cosyvoice # "None",
     sample_rate |-> IF cosyvoice # "None" THEN SampleRateOf(cosyvoice) ELSE 0]

\* lines 169-177: GET /health reads the two globals (sample_rate 0: null)
health_check ==
    [status |-> "healthy",
     cosyvoice_loaded |-> cosyvoice # "None",
     whisper_loaded |-> whisper_model # "None",
     sample_rate |-> IF cosyvoice # "None" THEN SampleRateOf(cosyvoice) ELSE 0]

\* The event loop runs the /health coroutine of request r: it returns the
\* HealthResponse without awaiting.
Health(r) ==
    /\ task[r].pc = "entry"
    /\ task[r].req.endpoint = "health"
    /\ Run(r, Leave([task[r] EXCEPT !.body =
                        [NoResp EXCEPT !.health = health_check]], Returned))
    /\ UNCHANGED <<launch, proc, globals, served, rng, gradioVars>>

\* The response has been sent; the slot is free for the next request.
Deliver(r) ==
    /\ task[r].pc = "done"
    /\ task' = [task EXCEPT ![r] = IdleTask]
    /\ UNCHANGED <<launch, proc, globals, served, rng, running, gradioVars>>

-----------------------------------------------------------------------------
(* The Gradio app. *)

WhisperSizes == {"base", "small"}

Languages == {"auto", "ko"}

ModelPaths == {"pretrained_models/CosyVoice2-0.5B", "pretrained_models/CosyVoice-300M"}

Modes == {"sft", "zero_shot", "instruct"}

\* what the UI passes as audio: nothing, a file path of the caller, or a
\* recording (sample_rate, audio_data), with what is spoken in it
GradioAudios ==
    {[kind |-> "None", speech |-> "none"]}
    \cup [kind : {"path", "tuple"}, speech : {"clear", "silence"}]

\* the files a call works with: the caller's file, the temporary copy of a
\* recording, the temporary file of the generated audio
CallerFile == "ref.wav"

TmpIn == "tmp_in.wav"

TmpOut == "tmp_out.wav"

\* no CosyVoice model object
NoModel == [class |-> "None", path |-> "None"]

\* lines 38-41: the fields __init__ sets
NewGradioApp ==
    [whisper_model |-> "None", cosyvoice_model |-> NoModel,
     current_model_path |-> "None"]

\* What is recorded of a call: its inputs (fn, size, ref, mode, blank: the
\* prompt text is blank, path: the path given to load_cosyvoice), what it did (created, whisper: the size of
\* the Whisper model it transcribed with, synth, constructed, raised: an
\* exception was raised inside it) and what it returned (audio, mark,
\* message, returned).
NoGradioCall ==
    [fn |-> "none", audio |-> "None", mark |-> "none", message |-> "none",
     created |-> {}, size |-> "none", whisper |-> "None", synth |-> FALSE,
     raised |-> FALSE, ref |-> "none", mode |-> "none", blank |-> FALSE,
     path |-> "None", constructed |-> FALSE, returned |-> NoModel]

GradioInit ==
    /\ gapp = NewGradioApp
    /\ gfiles = {}
    /\ gcall = NoGradioCall

\* lines 45-50: load_whisper loads a model only when none is loaded yet
load_whisper(app, size) ==
    IF app.whisper_model = "None" THEN [app EXCEPT !.whisper_model = size] ELSE app

\* whether load_whisper calls whisper.load_model
NeedsWhisperLoad(app) == app.whisper_model = "None"

\* the model object CosyVoice2(path) or CosyVoice(path) constructs (line 60:
\* the class is chosen by the path's name)
ModelFor(path) ==
    [class |-> IF path = "pretrained_models/CosyVoice2-0.5B"
               THEN "CosyVoice2" ELSE "CosyVoice",
     path |-> path]

LoadCosyvoicePathOnly(app, path) ==
    [app EXCEPT !.current_model_path = path]

\* lines 52-76: load_cosyvoice, when the constructor succeeds
load_cosyvoice(app, path) ==
    IF app.current_model_path # path
    THEN [app EXCEPT !.cosyvoice_model = ModelFor(path), !.current_model_path = path]
    ELSE app

\* whether load_cosyvoice constructs a model
NeedsCosyvoiceLoad(app, path) == app.current_model_path # path

Failure(call, msg) == [call EXCEPT !.audio = "None", !.mark = "fail", !.message = msg]

Uncaught(call, msg) == [call EXCEPT !.raised = TRUE]

\* an exception reaches the method's `except Exception` clause
Caught(call, msg) == [Failure(call, msg) EXCEPT !.raised = TRUE]

\* lines 134-188: generate_speech.  env says which external calls succeed:
\* cosy (the CosyVoice constructor), prepare (prepare_reference_audio),
\* infer (the inference call), yields (the generator yields a result), save
\* (torchaudio.save of the result).  The result is the app, the call record
\* and the files left on disk.
generate_speech(app, call0, files, ref, prompt_text, target_text, path, mode, env) ==
    LET loaded == load_cosyvoice(app, path)
        call == [call0 EXCEPT !.ref = ref.kind, !.mode = mode,
                              !.blank = (Strip(prompt_text) = <<>>)]
        synth == [call EXCEPT !.synth = TRUE]
        Out(a, c, f) == [app |-> a, call |-> c, files |-> f]
        Generate(suffix) ==
            IF ~env.infer
            THEN Out(loaded, Caught(synth, "generation error"), files)
            ELSE IF ~env.yields
            THEN Out(loaded, Failure(synth, "generation failed"), files)
            ELSE IF ~env.save
            THEN Out(loaded,
                     Caught([synth EXCEPT !.created = @ \cup {TmpOut}],
                            "generation error"),
                     files \cup {TmpOut})
            ELSE Out(loaded,
                     [synth EXCEPT !.created = @ \cup {TmpOut}, !.audio = TmpOut,
                                   !.mark = "ok", !.message = suffix],
                     files \cup {TmpOut})
    IN  IF Strip(target_text) = <<>>
        THEN Out(app, Failure(call, "enter the text to generate"), files)
        ELSE IF NeedsCosyvoiceLoad(app, path) /\ ~env.cosy
        THEN Out(app, Caught(call, "generation error"), files)
        ELSE IF mode = "sft"
        THEN Generate("generated (SFT)")
        ELSE IF mode = "zero_shot"
        THEN IF ref.kind = "None"
             THEN Out(loaded, Failure(call, "reference audio required"), files)
             ELSE IF Strip(prompt_text) = <<>>
             THEN Out(loaded, Failure(call, "enter the reference text"), files)
             ELSE IF ~env.prepare
             THEN Out(loaded, Caught(call, "generation error"), files)
             ELSE Generate("generated (zero-shot)")
        ELSE Out(loaded, Failure(call, "generation failed"), files)

\* The first call that fails ends the method, so at most one fails.
Envs ==
    {e \in [cosy : BOOLEAN, prepare : BOOLEAN, infer : BOOLEAN,
            yields : BOOLEAN, save : BOOLEAN] :
        Cardinality({f \in {"cosy", "prepare", "infer", "yields", "save"} : ~e[f]}) <= 1}

\* the texts the UI passes: blank (whitespace only), a word
GradioTexts == {<<"sp">>, <<"a">>}

\* the caller's file exists while the call runs; temporary files of earlier
\* calls carry other names and are not followed further
FilesAtCall(audio) == IF audio.kind = "path" THEN {CallerFile} ELSE {}

NewCall(fn, size) == [NoGradioCall EXCEPT !.fn = fn, !.size = size]

\* result["text"] of the Gradio app's Whisper call
GradioTranscript(audio) ==
    IF audio.speech = "clear" THEN <<"sp", "a">> ELSE <<"sp">>

\* lines 78-132: transcribe_audio.  stt says which calls succeed: load
\* (whisper.load_model), save (resampling and torchaudio.save of the
\* recording), transcribe (model.transcribe).
transcribe_audio(app, audio, size, stt) ==
    LET call == [NewCall("transcribe_audio", size) EXCEPT !.ref = audio.kind]
        files == FilesAtCall(audio)
        loaded == load_whisper(app, size)
        used == [call EXCEPT !.whisper = loaded.whisper_model]
        made == IF audio.kind = "tuple"
                THEN [used EXCEPT !.created = {TmpIn}] ELSE used
        Out(a, c, f) == [app |-> a, call |-> c, files |-> f]
    IN  IF audio.kind = "None"
        THEN Out(app, Failure(call, "record audio first"), files)
        ELSE IF NeedsWhisperLoad(app) /\ ~stt.load
        THEN Out(app, Caught(call, "recognition error"), files)
        ELSE IF audio.kind = "tuple" /\ ~stt.save
        THEN Out(loaded, Caught(made, "recognition error"), files \cup {TmpIn})
        ELSE IF ~stt.transcribe
        THEN Out(loaded, Caught(made, "recognition error"), files \cup made.created)
        ELSE Out(loaded,
                 [made EXCEPT !.mark = "ok", !.message = "recognised"],
                 files)

Stts ==
    {e \in [load : BOOLEAN, save : BOOLEAN, transcribe : BOOLEAN] :
        Cardinality({f \in {"load", "save", "transcribe"} : ~e[f]}) <= 1}

\* lines 214-272: auto_generate
auto_generate(app, audio, target_text, path, size, stt, env) ==
    LET call == [NewCall("auto_generate", size) EXCEPT
                    !.ref = audio.kind, !.mode = "zero_shot"]
        files == FilesAtCall(audio)
        loaded == load_whisper(app, size)
        used == [call EXCEPT !.whisper = loaded.whisper_model]
        made == IF audio.kind = "tuple"
                THEN [used EXCEPT !.created = {TmpIn}] ELSE used
        prompt_text == Strip(GradioTranscript(audio))
        gen == generate_speech(loaded, made, files \cup made.created, audio,
                               prompt_text, target_text, path, "zero_shot", env)
        Out(a, c, f) == [app |-> a, call |-> c, files |-> f]
    IN  IF audio.kind = "None"
        THEN Out(app, Failure(call, "record reference audio first"), files)
        ELSE IF Strip(target_text) = <<>>
        THEN Out(app, Failure(call, "enter the text to generate"), files)
        ELSE IF NeedsWhisperLoad(app) /\ ~stt.load
        THEN Out(app, Caught(call, "auto generation error"), files)
        ELSE IF audio.kind = "tuple" /\ ~stt.save
        THEN Out(loaded, Caught(made, "auto generation error"), files \cup {TmpIn})
        ELSE IF ~stt.transcribe
        THEN Out(loaded, Caught(made, "auto generation error"),
                 files \cup made.created)
        ELSE Out(gen.app,
                 IF gen.call.audio # "None"
                 THEN [gen.call EXCEPT !.message = "auto generation complete"]
                 ELSE [gen.call EXCEPT !.message = "auto generation failed",
                                       !.raised = FALSE],
                 gen.files \ {TmpIn})

TranscribeAudioCall ==
    \E audio \in GradioAudios, size \in WhisperSizes, stt \in Stts :
        LET out == transcribe_audio(gapp, audio, size, stt)
        IN  /\ gapp' = out.app
            /\ gcall' = out.call
            /\ gfiles' = out.files
            /\ UNCHANGED serverVars

GenerateSpeechCall ==
    \E audio \in GradioAudios, prompt \in GradioTexts, target \in GradioTexts,
       path \in ModelPaths, mode \in Modes, env \in Envs :
        LET out == generate_speech(gapp, NewCall("generate_speech", "none"),
                                   FilesAtCall(audio), audio, prompt, target,
                                   path, mode, env)
        IN  /\ gapp' = out.app
            /\ gcall' = out.call
            /\ gfiles' = out.files
            /\ UNCHANGED serverVars

NoFailure(e) == \A f \in DOMAIN e : e[f]

AutoGenerateCall ==
    \E audio \in GradioAudios, target \in GradioTexts, path \in ModelPaths,
       size \in WhisperSizes, stt \in Stts :
      \E env \in {e \in Envs : NoFailure(stt) \/ NoFailure(e)} :
        LET out == auto_generate(gapp, audio, target, path, size, stt, env)
        IN  /\ gapp' = out.app
            /\ gcall' = out.call
            /\ gfiles' = out.files
            /\ UNCHANGED serverVars

\* lines 52-76: a call of load_cosyvoice itself; ok says whether the
\* constructor succeeds (COSYVOICE_AVAILABLE being false counts as a
\* constructor that never succeeds)
load_cosyvoice_call(app, path, ok) ==
    LET call == [NewCall("load_cosyvoice", "none") EXCEPT !.path = path]
        loaded == load_cosyvoice(app, path)
    IN  IF NeedsCosyvoiceLoad(app, path) /\ ~ok
        THEN [app |-> app, call |-> [call EXCEPT !.raised = TRUE]]
        ELSE [app |-> loaded,
              call |-> [call EXCEPT
                          !.constructed = NeedsCosyvoiceLoad(app, path),
                          !.returned = loaded.cosyvoice_model]]

LoadCosyvoiceCall ==
    \E path \in ModelPaths, ok \in BOOLEAN :
        LET out == load_cosyvoice_call(gapp, path, ok)
        IN  /\ gapp' = out.app
            /\ gcall' = out.call
            /\ gfiles' = {}
            /\ UNCHANGED serverVars

GradioNext ==
    \/ TranscribeAudioCall
    \/ GenerateSpeechCall
    \/ AutoGenerateCall
    \/ LoadCosyvoiceCall

-----------------------------------------------------------------------------
(* Specifications. *)

Init ==
    /\ launch \in {"script", "import"}
    /\ proc = "boot"
    /\ globals = [m \in Modules |-> FreshGlobals]
    /\ served = "none"
    /\ rng = <<0, 0>>
    /\ running = NoReq
    /\ task = [r \in Reqs |-> IdleTask]
    /\ GradioInit

Startup == MainInitModels \/ UvicornRun \/ HostInitModels \/ HostServe

Handle(r) ==
    \/ Enter(r)
    \/ Base64ToAudio(r)
    \/ CreateUpload(r)
    \/ ResumeRead(r)
    \/ Probe(r)
    \/ Transcribe(r)
    \/ LoadPrompt(r)
    \/ Seed(r)
    \/ Synthesize(r)
    \/ Encode(r)
    \/ Finally(r)
    \/ Deliver(r)

\* Every kind of request, one request in flight at a time.
AnyRequest ==
    JsonRequests(Texts, B64Inputs, Audios, {MinSeed}, BOOLEAN, {10})
    \cup FileRequests(Texts, Audios, {MinSeed}, BOOLEAN, {10})
    \cup TranscribeRequests(Audios)

Next ==
    \/ Startup
    \/ \E rq \in AnyRequest : Receive("r1", rq)
    \/ Handle("r1")

Spec == Init /\ [][Next]_vars

\* Repeated and overlapping /tts/zero_shot requests in two slots: a prompt
\* audio Whisper decodes greedily and one it decodes by sampling, two seeds.
HandleJson(r) ==
    \/ Enter(r)
    \/ Base64ToAudio(r)
    \/ Probe(r)
    \/ Transcribe(r)
    \/ LoadPrompt(r)
    \/ Seed(r)
    \/ Synthesize(r)
    \/ Encode(r)
    \/ Finally(r)
    \/ Deliver(r)

GoodAudios == [sr : {16000}, speech : {"clear", "noisy"}]

RepeatRequests ==
    JsonRequests({<<"a">>}, {B64Of(<<"A", "A", "A", "A">>)}, GoodAudios,
                 {MinSeed, MinSeed + 1}, {FALSE}, {10})

NextRepeat ==
    \/ Startup
    \/ \E r \in Reqs : \E rq \in RepeatRequests : Receive(r, rq)
    \/ \E r \in Reqs : HandleJson(r)

SpecRepeat == Init /\ [][NextRepeat]_vars

\* Concurrent TTS requests on both endpoints, with two seeds.
LoopRequests ==
    JsonRequests({<<"a">>}, {B64Of(<<"A", "A", "A", "A">>)},
                 {[sr |-> 16000, speech |-> "clear"]},
                 {MinSeed, MinSeed + 1}, BOOLEAN, {10})
    \cup FileRequests({<<"a">>}, {[sr |-> 16000, speech |-> "clear"]},
                      {MinSeed, MinSeed + 1}, BOOLEAN, {10})

NextLoop ==
    \/ Startup
    \/ \E r \in Reqs : \E rq \in LoopRequests : Receive(r, rq)
    \/ \E r \in Reqs : Handle(r)

SpecLoop == Init /\ [][NextLoop]_vars

\* TTS requests with seeds and speeds at and beyond the limits.
RangeRequests ==
    JsonRequests({<<"a">>}, {B64Of(<<"A", "A", "A", "A">>)},
                 {[sr |-> 16000, speech |-> "clear"]}, Seeds, BOOLEAN, Speeds)
    \cup FileRequests({<<"a">>}, {[sr |-> 16000, speech |-> "clear"]},
                      Seeds, BOOLEAN, Speeds)

NextRange ==
    \/ Startup
    \/ \E rq \in RangeRequests : Receive("r1", rq)
    \/ Handle("r1")

SpecRange == Init /\ [][NextRange]_vars

\* TTS requests whose text the frontend splits into no, one or two
\* sentences, with and without the stream flag.
ChunkTexts == {<<"dot">>, <<"a">>, <<"a", "dot", "a">>}

ChunkRequests ==
    JsonRequests(ChunkTexts, {B64Of(<<"A", "A", "A", "A">>)},
                 {[sr |-> 16000, speech |-> "clear"]}, {MinSeed}, BOOLEAN, {10})
    \cup FileRequests(ChunkTexts, {[sr |-> 16000, speech |-> "clear"]},
                      {MinSeed}, BOOLEAN, {10})

NextChunks ==
    \/ Startup
    \/ \E rq \in ChunkRequests : Receive("r1", rq)
    \/ Handle("r1")

SpecChunks == Init /\ [][NextChunks]_vars

\* GET /health among requests to the three POST routes, in two slots.
HealthRequests ==
    {HealthRequest}
    \cup JsonRequests({<<"a">>}, {B64Of(<<"A", "A", "A", "A">>)},
                      {[sr |-> 16000, speech |-> "clear"]}, {MinSeed}, {FALSE}, {10})
    \cup FileRequests({<<"a">>}, {[sr |-> 16000, speech |-> "clear"]},
                      {MinSeed}, {FALSE}, {10})
    \cup TranscribeRequests({[sr |-> 16000, speech |-> "clear"]})

NextHealth ==
    \/ Startup
    \/ \E r \in Reqs : \E rq \in HealthRequests : Receive(r, rq)
    \/ \E r \in Reqs : Handle(r)
    \/ \E r \in Reqs : Health(r)

SpecHealth == Init /\ [][NextHealth]_vars

\* The Gradio app alone (its process runs no HTTP server).
GradioOnly == Init /\ launch = "script"

SpecGradio == GradioOnly /\ [][GradioNext]_vars

-----------------------------------------------------------------------------
(* Properties of the HTTP server. *)

TTSEndpoints == {"zero_shot", "zero_shot_file"}

InTrace(t, name) == \E i \in 1..Len(t.trace) : t.trace[i] = name

\* the handler of request r was called and has been left
Handled(r) ==
    task[r].pc = "done" /\ task[r].resp.kind # "RequestValidationError"

ModelsLoaded == cosyvoice # "None" /\ whisper_model # "None"

\* a handled TTS request, both models loaded, text not blank, whose prompt
\* audio is an audio file of a sample rate below 16000 Hz
LowRateCase(r) ==
    /\ Handled(r)
    /\ task[r].req.endpoint \in TTSEndpoints
    /\ ModelsLoaded
    /\ Strip(task[r].req.text) # <<>>
    /\ task[r].req.audio.sr # 0
    /\ task[r].req.audio.sr < 16000

NoModelCall(t) == ~InTrace(t, "transcribe") /\ ~InTrace(t, "synth")

\* C1 as stated: a TTS request with a prompt audio below 16000 Hz is
\* answered with status 400, and neither transcription nor synthesis is
\* invoked for it.
C1_AlwaysStatus400 ==
    \A r \in Reqs : LowRateCase(r) =>
        task[r].resp.status = 400 /\ NoModelCall(task[r])

\* C1, amended: such a request is rejected with an HTTPException and never
\* reaches transcription or synthesis; the status is 400, except that it is
\* 500 when reading or writing the upload of /tts/zero_shot_file fails or
\* when deleting the temporary file fails.
C1_LowRateRejected ==
    \A r \in Reqs : LowRateCase(r) =>
        /\ NoModelCall(task[r])
        /\ task[r].resp.kind = "HTTPException"
        /\ task[r].fault \in {"none", "write", "upload", "unlink"}
        /\ task[r].resp.status =
              IF task[r].fault \in {"upload", "unlink"} THEN 500 ELSE 400

C1_Witness ==
    \E r \in Reqs :
        /\ LowRateCase(r)
        /\ InTrace(task[r], "info")
        /\ task[r].fault = "none"
        /\ task[r].resp.status = 400

\* C2: a /tts/zero_shot request (models loaded, text not blank, no failure
\* of the disk or of a model while it is handled) whose prompt_audio_base64
\* is not valid base64 is answered with status 400 "Invalid audio data", and
\* neither transcription nor synthesis is invoked.
C2_MalformedBase64Rejected ==
    \A r \in Reqs :
        ( /\ Handled(r)
          /\ task[r].fault = "none"
          /\ task[r].req.endpoint = "zero_shot"
          /\ ModelsLoaded
          /\ Strip(task[r].req.text) # <<>>
          /\ ~task[r].req.b64.valid )
        => /\ task[r].resp.status = 400
           /\ task[r].resp.detail = "Invalid audio data"
           /\ NoModelCall(task[r])

\* a handled TTS request, both models loaded, whose text is empty or blank
BlankTextCase(r) ==
    /\ Handled(r)
    /\ task[r].req.endpoint \in TTSEndpoints
    /\ ModelsLoaded
    /\ Strip(task[r].req.text) = <<>>

\* C3: with both models loaded, a TTS request whose text is empty or only
\* whitespace is answered with status 400 before any temporary file is
\* created and before any decode, transcription or synthesis call.
C3_BlankTextRejected ==
    \A r \in Reqs : BlankTextCase(r) =>
        /\ task[r].resp.kind = "HTTPException"
        /\ task[r].resp.status = 400
        /\ task[r].tmp = "none"
        /\ task[r].trace = <<>>

C3_Witness ==
    \E r \in Reqs :
        /\ BlankTextCase(r)
        /\ task[r].req.text = <<"sp">>
        /\ ~task[r].req.b64.empty
        /\ task[r].resp.detail = "TTS text cannot be empty"

\* C4: when a handler has returned or raised, the temporary file it created
\* is deleted, on every outcome in which the deletion itself did not fail.
C4_TempFileDeleted ==
    \A r \in Reqs :
        (Handled(r) /\ task[r].fault # "unlink") => task[r].tmp # "exists"

\* C7: what leaves a handler that was called for a request is a response or
\* an HTTPException with status 400 or 500 and a text detail, whichever step
\* failed (a request FastAPI rejects before it calls the handler never
\* enters one).
C7_OnlyHTTPExceptions ==
    \A r \in Reqs : Handled(r) =>
        \/ task[r].resp.kind = "response" /\ task[r].resp.status = 200
        \/ /\ task[r].resp.kind = "HTTPException"
           /\ task[r].resp.status \in {400, 500}
           /\ task[r].resp.detail # ""

\* a failing cleanup of a request that was about to succeed
C7_Witness ==
    \E r \in Reqs :
        /\ Handled(r)
        /\ task[r].fault = "unlink"
        /\ InTrace(task[r], "encode")
        /\ task[r].resp.status = 500

\* the place of a call in the handlers' sequence
Rank(name) ==
    CASE name = "b64decode" -> 1
      [] name = "mktemp" -> 2
      [] name = "info" -> 3
      [] name = "transcribe" -> 4
      [] name = "load_wav" -> 5
      [] name = "seed" -> 6
      [] name = "synth" -> 7
      [] name = "encode" -> 8
      [] OTHER -> 9

\* C8: in the handling of a TTS request the calls occur in the order
\* decode, sample-rate probe, transcribe, seed, synthesize, encode, and a
\* response follows the encoding; transcription is called only after the
\* probe has found a rate of at least 16000 Hz, and synthesis only after
\* the request's transcription returned a text that is not blank and its
\* seed was set.
C8_StepOrder ==
    \A r \in Reqs :
        LET t == task[r]
        IN  t.req.endpoint \in TTSEndpoints =>
              /\ \A i \in 1..Len(t.trace), j \in 1..Len(t.trace) :
                    i < j => Rank(t.trace[i]) < Rank(t.trace[j])
              /\ InTrace(t, "transcribe") =>
                    InTrace(t, "info") /\ t.req.audio.sr >= 16000
              /\ InTrace(t, "synth") =>
                    /\ InTrace(t, "transcribe") /\ InTrace(t, "seed")
                    /\ Strip(t.prompt_text) # <<>>
              /\ t.resp.kind = "response" => InTrace(t, "encode")

C8_Witness ==
    \E r \in Reqs :
        /\ task[r].req.endpoint \in TTSEndpoints
        /\ task[r].resp.kind = "response"
        /\ InTrace(task[r], "synth")

\* C9: once the script's main entry point serves, the handlers read the
\* models init_models loaded: /health reports both as loaded, and no TTS
\* request is answered "model not loaded".
C9_ServedModelsLoaded ==
    (launch = "script" /\ proc = "serving") =>
        /\ health_check.cosyvoice_loaded
        /\ health_check.whisper_loaded
        /\ \A r \in Reqs : Handled(r) =>
              task[r].resp.detail \notin {"CosyVoice model not loaded",
                                          "Whisper model not loaded"}

\* C6: two /tts/zero_shot requests with the same text, prompt audio, seed,
\* speed and stream flag that both succeed return the same transcribed_text
\* and the same audio_base64, whatever the server handled before or between
\* them.
C6_SameRequestSameResponse ==
    \A r \in Reqs, q \in Reqs :
        ( /\ Handled(r) /\ Handled(q)
          /\ task[r].req.endpoint = "zero_shot"
          /\ task[r].req = task[q].req
          /\ task[r].resp.kind = "response"
          /\ task[q].resp.kind = "response" )
        => /\ task[r].resp.transcribed_text = task[q].resp.transcribed_text
           /\ task[r].resp.audio = task[q].resp.audio

\* C10: between a request's set_all_random_seed and the end of its
\* synthesis no other request seeds or synthesizes, and every synthesis
\* starts from the generator state its own request's seed set.
C10_SeedToSynthesisAtomic ==
    [][ /\ \A r \in Reqs :
             InTrace(task'[r], "synth") =>
                 task'[r].synth_rng = Seeded(task'[r].req.seed)
        /\ \A r \in Reqs, q \in Reqs :
             (r # q /\ task[r].pc = "synth" /\ task[q].pc \in {"seed", "synth"})
             => task'[q].pc = task[q].pc ]_vars

\* a request is seeded and about to synthesize while a request with
\* another seed is suspended in its handler
C10_Witness ==
    \E r \in Reqs, q \in Reqs :
        /\ task[r].pc = "synth"
        /\ task[q].pc = "await_read"
        /\ task[q].req.seed # task[r].req.seed

InRange(rq) ==
    /\ rq.seed >= MinSeed /\ rq.seed <= MaxSeed
    /\ rq.speed >= MinSpeed /\ rq.speed <= MaxSpeed

\* C11: a /tts/zero_shot request whose seed is outside 1..100000000 or whose
\* speed is outside 0.5..2.0 is answered by request validation (422) and
\* its handler never runs: no file is created, nothing is called, and the
\* generator is never seeded nor the synthesis called with such values.
C11_JsonRangeValidated ==
    \A r \in Reqs :
        (task[r].req.endpoint = "zero_shot" /\ ~InRange(task[r].req)) =>
            /\ task[r].pc = "done"
            /\ task[r].resp.kind = "RequestValidationError"
            /\ task[r].trace = <<>>
            /\ task[r].tmp = "none"

\* a seed above the upper limit has been rejected, and so has a speed
\* above the upper limit
C11_Witness ==
    \E r \in Reqs :
        /\ task[r].req.endpoint = "zero_shot"
        /\ task[r].resp.kind = "RequestValidationError"
        /\ \/ task[r].req.seed > MaxSeed /\ task[r].req.speed = 10
           \/ task[r].req.speed > MaxSpeed /\ task[r].req.seed = MinSeed

\* C12: every /tts/zero_shot_file request that reaches synthesis has a speed
\* within 0.5..2.0.
C12_FileSpeedInRange ==
    \A r \in Reqs :
        (task[r].req.endpoint = "zero_shot_file" /\ InTrace(task[r], "synth")) =>
            task[r].req.speed >= MinSpeed /\ task[r].req.speed <= MaxSpeed

\* the chunks the synthesis generator yields for the request of task t
YieldedChunks(t) ==
    SynthChunks(t.req.text, t.prompt_text, t.req.audio, t.req.stream,
                t.req.speed, t.synth_rng)

\* C13: for both values of the stream flag, a TTS request whose synthesis
\* was called and did not fail is answered with the audio of every chunk the
\* generator yields for it, concatenated in yield order, also when the
\* generator yields several chunks or none.
C13_AllChunksReturned ==
    \A r \in Reqs :
        ( /\ Handled(r)
          /\ task[r].req.endpoint \in TTSEndpoints
          /\ InTrace(task[r], "synth")
          /\ task[r].fault = "none" )
        => /\ task[r].resp.kind = "response"
           /\ task[r].resp.audio.samples = Concatenate(YieldedChunks(task[r]))

\* C14: a /tts/zero_shot_file request whose transcription and synthesis
\* succeeded (and for which nothing failed afterwards) is answered with a WAV
\* stream whose X-Transcribed-Text header is the stripped transcription,
\* whatever its characters; a successful /tts/zero_shot response has
\* success = true, that transcription, an audio_base64 and the CosyVoice
\* sample rate.
C14_ResponseFields ==
    \A r \in Reqs :
        LET t == task[r]
        IN  /\ ( /\ Handled(r)
                /\ t.req.endpoint = "zero_shot_file"
                /\ InTrace(t, "encode")
                /\ t.fault = "none" )
              => /\ t.resp.kind = "response"
                 /\ t.resp.audio.format = "wav"
                 /\ t.resp.header = t.prompt_text
            /\ ( /\ Handled(r)
                /\ t.req.endpoint = "zero_shot"
                /\ t.resp.kind = "response" )
              => /\ t.resp.success
                 /\ t.resp.transcribed_text = t.prompt_text
                 /\ t.resp.audio.format = "base64(wav)"
                 /\ t.resp.sample_rate = SampleRateOf(cosyvoice)

\* C15: GET /health is answered 200 with status "healthy" in every state of
\* the server; cosyvoice_loaded and whisper_loaded are true exactly when the
\* served module's handle is set, and sample_rate is null exactly when the
\* CosyVoice handle is not set.
C15_HealthReportsHandles ==
    \A r \in Reqs :
        (task[r].req.endpoint = "health" /\ task[r].pc = "done") =>
            LET h == task[r].resp.health
            IN  /\ task[r].resp.kind = "response"
                /\ task[r].resp.status = 200
                /\ h.status = "healthy"
                /\ h.cosyvoice_loaded <=>
                      globals[served].cosyvoice \in {"CosyVoice", "CosyVoice2"}
                /\ h.whisper_loaded <=> globals[served].whisper_model = "Whisper"
                /\ h.sample_rate = 0 <=> globals[served].cosyvoice = "None"

\* /health answered while CosyVoice is loaded and Whisper is not, and while
\* another request is in flight
C15_Witness ==
    \E r \in Reqs, q \in Reqs :
        /\ task[r].req.endpoint = "health" /\ task[r].pc = "done"
        /\ task[r].resp.health.cosyvoice_loaded
        /\ ~task[r].resp.health.whisper_loaded
        /\ task[r].resp.health.sample_rate # 0
        /\ task[q].pc \in {"entry", "await_read"}

\* a handled request to an endpoint one of whose models is not loaded
NotLoadedCase(r) ==
    /\ Handled(r)
    /\ \/ task[r].req.endpoint \in TTSEndpoints /\ ~ModelsLoaded
       \/ task[r].req.endpoint = "transcribe" /\ whisper_model = "None"

NotLoadedAnswered ==
    \A r \in Reqs : NotLoadedCase(r) =>
        /\ task[r].resp.kind = "HTTPException"
        /\ task[r].resp.status = 500
        /\ task[r].resp.detail =
              IF task[r].req.endpoint \in TTSEndpoints /\ cosyvoice = "None"
              THEN "CosyVoice model not loaded"
              ELSE "Whisper model not loaded"
        /\ task[r].tmp = "none"
        /\ task[r].trace = <<>>

\* C16: a request to a TTS endpoint while CosyVoice or Whisper is not loaded,
\* or to /transcribe while Whisper is not loaded, is answered 500 without a
\* temporary file and without any call; /transcribe does not look at the
\* CosyVoice handle; and no step of a handler changes a model handle.
C16_NotLoadedAndFrame ==
    [][ /\ NotLoadedAnswered'
        /\ proc = "serving" => globals' = globals ]_vars

\* a TTS request refused because Whisper alone is missing, and a
\* /transcribe request refused while CosyVoice is missing too
C16_Witness ==
    \E r \in Reqs :
        /\ NotLoadedCase(r)
        /\ \/ /\ task[r].req.endpoint \in TTSEndpoints
              /\ cosyvoice # "None"
              /\ task[r].resp.detail = "Whisper model not loaded"
           \/ /\ task[r].req.endpoint = "transcribe"
              /\ cosyvoice = "None"
              /\ task[r].resp.detail = "Whisper model not loaded"

\* a handled TTS request whose transcription returned (no exception inside
\* transcribe_audio) a text that is empty or only whitespace
EmptyTranscriptCase(r) ==
    /\ Handled(r)
    /\ task[r].req.endpoint \in TTSEndpoints
    /\ InTrace(task[r], "transcribe")
    /\ task[r].req.audio.speech = "silence"
    /\ task[r].fault # "transcribe"

\* a handled TTS request inside whose transcribe_audio an exception was
\* raised
TranscribeRaisedCase(r) ==
    /\ Handled(r)
    /\ task[r].req.endpoint \in TTSEndpoints
    /\ task[r].fault = "transcribe"

NoSeedNoSynth(t) == ~InTrace(t, "seed") /\ ~InTrace(t, "synth")

\* C17 as stated: an empty transcription is answered 400 "Failed to
\* transcribe prompt audio", an exception inside transcribe_audio 500, and
\* in both cases neither seeding nor synthesis is invoked.
C17_EmptyAlways400 ==
    \A r \in Reqs :
        /\ EmptyTranscriptCase(r) =>
              /\ task[r].resp.status = 400
              /\ task[r].resp.detail = "Failed to transcribe prompt audio"
              /\ NoSeedNoSynth(task[r])
        /\ TranscribeRaisedCase(r) =>
              task[r].resp.status = 500 /\ NoSeedNoSynth(task[r])

\* C17, amended: the empty transcription is answered 400 unless deleting
\* the temporary file fails afterwards, which turns the answer into 500; an
\* exception inside transcribe_audio is answered 500; neither seeding nor
\* synthesis is invoked in any of these cases.
C17_EmptyTranscriptRejected ==
    \A r \in Reqs :
        /\ EmptyTranscriptCase(r) =>
              /\ task[r].resp.kind = "HTTPException"
              /\ NoSeedNoSynth(task[r])
              /\ task[r].fault \in {"none", "unlink"}
              /\ IF task[r].fault = "unlink"
                 THEN task[r].resp.status = 500
                 ELSE /\ task[r].resp.status = 400
                      /\ task[r].resp.detail = "Failed to transcribe prompt audio"
        /\ TranscribeRaisedCase(r) =>
              /\ task[r].resp.kind = "HTTPException"
              /\ task[r].resp.status = 500
              /\ NoSeedNoSynth(task[r])

\* both cases have happened: the 400 for a silent prompt, and the 500 for an
\* exception inside transcribe_audio
C17_Witness ==
    \E r \in Reqs :
        \/ /\ EmptyTranscriptCase(r)
           /\ task[r].fault = "none"
           /\ task[r].resp.status = 400
        \/ /\ TranscribeRaisedCase(r)
           /\ task[r].resp.detail = "Transcription failed"

-----------------------------------------------------------------------------
(* Properties of the Gradio app. *)

\* C5: when transcribe_audio, auto_generate or generate_speech has returned,
\* no temporary file the call created is left on disk (the file whose path
\* the call returns as its audio aside), on every outcome.
C5_GradioTempFilesDeleted ==
    \A f \in gcall.created : f # gcall.audio => f \notin gfiles

\* C18: a call of transcribe_audio or auto_generate that transcribes does
\* so with the Whisper model of the whisper_size passed to that call.
C18_WhisperSizeOfCall ==
    (gcall.fn \in {"transcribe_audio", "auto_generate"} /\ gcall.whisper # "None")
        => gcall.whisper = gcall.size

\* C19: cosyvoice_model is always the model constructed for
\* current_model_path (both None before the first success); a load_cosyvoice
\* call that fails leaves the app unchanged, one with the current path
\* constructs nothing and does not fail, and one that returns returns the
\* model of the requested path, which is then the current one.
C19_CosyvoiceModelOfPath ==
    [][ /\ gapp'.cosyvoice_model =
              IF gapp'.current_model_path = "None"
              THEN NoModel ELSE ModelFor(gapp'.current_model_path)
        /\ gcall'.fn = "load_cosyvoice" =>
              /\ gcall'.raised => gapp' = gapp /\ ~gcall'.constructed
              /\ gcall'.path = gapp.current_model_path =>
                    ~gcall'.constructed /\ ~gcall'.raised
              /\ ~gcall'.raised =>
                    /\ gcall'.returned = ModelFor(gcall'.path)
                    /\ gapp'.current_model_path = gcall'.path
                    /\ gcall'.constructed <=>
                          gapp.current_model_path # gcall'.path ]_vars

\* a load that failed after an earlier load of another path succeeded
C19_Witness ==
    /\ gcall.fn = "load_cosyvoice"
    /\ gcall.raised
    /\ gapp.current_model_path \notin {"None", gcall.path}
    /\ gapp.cosyvoice_model = ModelFor(gapp.current_model_path)

\* C20: generate_speech and auto_generate always return a pair: no audio
\* with a failure message, or the path of an existing audio file with a
\* success message; in zero_shot mode a missing reference audio or a blank
\* prompt text (a blank transcription inside auto_generate included) gives
\* the failure pair without synthesis; a file of the caller is never
\* deleted.
C20_GradioCallsReturnPairs ==
    gcall.fn \in {"generate_speech", "auto_generate"} =>
        /\ \/ gcall.audio = "None" /\ gcall.mark = "fail"
           \/ gcall.audio = TmpOut /\ gcall.mark = "ok" /\ TmpOut \in gfiles
        /\ (gcall.mode = "zero_shot" /\ (gcall.ref = "None" \/ gcall.blank)) =>
              ~gcall.synth /\ gcall.audio = "None"
        /\ gcall.ref = "path" => CallerFile \in gfiles

\* auto_generate on a caller's file in which nothing is spoken, and a call
\* inside which a model raised
C20_Witness ==
    \/ /\ gcall.fn = "auto_generate"
       /\ gcall.ref = "path"
       /\ gcall.blank
       /\ gcall.mark = "fail"
    \/ /\ gcall.fn = "generate_speech"
       /\ gcall.raised
       /\ gcall.synth

====
